---- MODULE Spec2Model ----
(***************************************************************************)
(* The interactive event loop of the ICB terminal client                   *)
(* (client/src/main.rs): the line editor, the slash-command dispatch, the  *)
(* inbound-message formatting and the loop that interleaves them.          *)
(*                                                                         *)
(* A Rust String is modelled as a sequence of characters; each character   *)
(* is a TLA+ string (an ASCII character as itself, another one as its code *)
(* point) and carries its UTF-8 byte length (len_utf8) and its terminal    *)
(* display width (unicode-width).  A panic                                 *)
(* (index out of range, unwrap on None, arithmetic overflow in a build     *)
(* with overflow checks) moves the process to pc = "panicked"; exit(0)     *)
(* moves it to pc = "exited".                                              *)
(***************************************************************************)
EXTENDS Integers, Sequences, FiniteSets, TLC

VARIABLES
    input,            \* ui.input
    history,          \* ui.history: the conversation as shown
    user_history,     \* ui.user_history: what the user has sent so far
    hist_offset,      \* offset in user_history, counted from the end
    cursor_offset,    \* offset of the cursor from the end of the string
    nickname,         \* client.nickname
    msg_r,            \* inbound channel: tuples sent by the backend, not yet received
    cmd_s,            \* outbound channel: every Command sent, in order
    pc,               \* position of the main thread in the loop
    n_inbound,        \* number of tuples the backend has put on msg_r so far
    last_key,         \* the event events.next() delivered in this iteration of the loop
    ups,              \* consecutive Key::Up events, the first delivered at hist_offset = 0
    downs,            \* Key::Down events that directly followed them (2: two or more)
    recv              \* the tuples try_recv returned, each with the index of its line in ui.history

vars == <<input, history, user_history, hist_offset, cursor_offset, nickname,
          msg_r, cmd_s, pc, n_inbound, last_key, ups, downs, recv>>

(***************************************************************************)
(* Bounds of the model.                                                    *)
(***************************************************************************)
MaxLen == 2         \* characters typed into one input line
MaxHist == 2        \* lines submitted with Enter
MaxInbound == 2     \* tuples sent by the backend
MaxUp == MaxHist + 2  \* value hist_offset may reach
MaxCursor == MaxLen  \* value cursor_offset may reach

(***************************************************************************)
(* Characters.                                                             *)
(***************************************************************************)
EAcute == "U+00E9"  \* e with acute accent: two bytes, one column
Kanji == "U+4E16"   \* a CJK ideograph: three bytes, two columns
Tab == "\t"         \* U+0009: one byte, no column (control character)

\* char::len_utf8
len_utf8(c) ==
    CASE c = EAcute -> 2
      [] c = Kanji -> 3
      [] OTHER -> 1

\* UnicodeWidthChar::width(c).unwrap_or(0)
char_width(c) ==
    CASE c = Kanji -> 2
      [] c = Tab -> 0
      [] OTHER -> 1

\* char::is_whitespace
is_whitespace(c) == c \in {" ", Tab}

\* String::len: the length in bytes
RECURSIVE len(_)
len(s) == IF s = <<>> THEN 0 ELSE len_utf8(Head(s)) + len(Tail(s))

\* UnicodeWidthStr::width: the number of terminal columns
RECURSIVE width(_)
width(s) == IF s = <<>> THEN 0 ELSE char_width(Head(s)) + width(Tail(s))

\* String::pop: removes the last character, if any
pop(s) == IF s = <<>> THEN s ELSE SubSeq(s, 1, Len(s) - 1)

\* str::is_char_boundary(idx): the number of characters before byte idx, as a set
\* (empty when idx is inside a character or past the end)
CharsBefore(s, idx) == {k \in 0..Len(s) : len(SubSeq(s, 1, k)) = idx}

\* String::insert(idx, c) where idx is a char boundary
insert(s, idx, c) ==
    LET k == CHOOSE k \in CharsBefore(s, idx) : TRUE
    IN  SubSeq(s, 1, k) \o <<c>> \o SubSeq(s, k + 1, Len(s))

RECURSIVE SplitFrom(_, _, _)
SplitFrom(s, cur, acc) ==
    IF s = <<>>
    THEN IF cur = <<>> THEN acc ELSE Append(acc, cur)
    ELSE IF is_whitespace(Head(s))
         THEN SplitFrom(Tail(s), <<>>, IF cur = <<>> THEN acc ELSE Append(acc, cur))
         ELSE SplitFrom(Tail(s), Append(cur, Head(s)), acc)

\* str::split_whitespace().collect()
split_whitespace(s) == SplitFrom(s, <<>>, <<>>)

\* str::find: index (from 1) of the first occurrence of pat in s, 0 if none
find(s, pat) ==
    LET hits == {i \in 1..(Len(s) - Len(pat) + 1) : SubSeq(s, i, i + Len(pat) - 1) = pat}
    IN  IF hits = {} THEN 0 ELSE CHOOSE i \in hits : \A j \in hits : i <= j

\* str::replacen(pat, to, 1)
replacen(s, pat, to) ==
    LET i == find(s, pat)
    IN  IF i = 0 THEN s
        ELSE SubSeq(s, 1, i - 1) \o to \o SubSeq(s, i + Len(pat), Len(s))

(***************************************************************************)
(* timestamp(): 'now' as HH:MM.  The clock is read as minutes since        *)
(* midnight.                                                               *)
(***************************************************************************)
Digit(d) == CASE d = 0 -> "0" [] d = 1 -> "1" [] d = 2 -> "2" [] d = 3 -> "3"
              [] d = 4 -> "4" [] d = 5 -> "5" [] d = 6 -> "6" [] d = 7 -> "7"
              [] d = 8 -> "8" [] d = 9 -> "9"

\* format!("{:02}", n) for n < 100
Pad02(n) == <<Digit(n \div 10), Digit(n % 10)>>

timestamp(now) == Pad02(now \div 60) \o <<":">> \o Pad02(now % 60)

(***************************************************************************)
(* Ui::default and the two offsets.                                        *)
(***************************************************************************)
StartNickname == <<"m", "e">>

Init ==
    /\ input = <<>>
    /\ history = <<>>
    /\ user_history = <<>>
    /\ hist_offset = 0
    /\ cursor_offset = 0
    /\ nickname = StartNickname
    /\ msg_r = <<>>
    /\ cmd_s = <<>>
    /\ pc = "loop"
    /\ n_inbound = 0
    /\ last_key = "none"
    /\ ups = 0
    /\ downs = 0
    /\ recv = <<>>

(***************************************************************************)
(* Inbound tuples (icb::packets) and their display lines.                  *)
(***************************************************************************)
T_OPEN == "b"
T_PERSONAL == "c"
T_STATUS == "d"
T_PROTOCOL == "j"
T_BEEP == "k"

StatusCategories ==
    { <<"A","r","r","i","v","e">>, <<"B","o","o","t">>, <<"D","e","p","a","r","t">>,
      <<"H","e","l","p">>, <<"N","a","m","e">>, <<"N","o","-","B","e","e","p">>,
      <<"N","o","t","i","f","y">>, <<"S","i","g","n","-","o","f","f">>,
      <<"S","i","g","n","-","o","n">>, <<"S","t","a","t","u","s">>,
      <<"T","o","p","i","c">>, <<"W","a","r","n","i","n","g">> }

\* char::escape_debug, as <str as Debug>::fmt applies it
escape_debug(c) ==
    CASE c = Tab -> <<"\\", "t">>
      [] c = "\"" -> <<"\\", "\"">>
      [] c = "\\" -> <<"\\", "\\">>
      [] OTHER -> <<c>>

RECURSIVE escape_str(_)
escape_str(s) == IF s = <<>> THEN <<>> ELSE escape_debug(Head(s)) \o escape_str(Tail(s))

RECURSIVE debug_items(_)
debug_items(m) ==
    IF m = <<>> THEN <<>>
    ELSE <<"\"">> \o escape_str(Head(m)) \o <<"\"">>
         \o (IF Tail(m) = <<>> THEN <<>> ELSE <<",", " ">> \o debug_items(Tail(m)))

\* format!("{:?}", m) for m: Vec<String>
debug_vec(m) == <<"[">> \o debug_items(m) \o <<"]">>

\* a push at the front
push_front(v, x) == <<x>> \o v

\* Vec::push
push(v, x) == Append(v, x)

\* m[0].chars().next().unwrap(), m[1], m[2]: the match panics when the tuple is
\* empty, when its first field is empty, or when it lacks a field its arm reads
InboundPanics(m) ==
    \/ Len(m) = 0
    \/ m[1] = <<>>
    \/ Head(m[1]) \in {T_OPEN, T_PERSONAL, T_PROTOCOL, T_STATUS} /\ Len(m) < 3
    \/ Head(m[1]) = T_BEEP /\ Len(m) < 2

\* the line the match pushes for a tuple it can read
InboundLine(m, now) ==
    LET packet_type == Head(m[1])
    IN  CASE packet_type = T_OPEN ->
               timestamp(now) \o <<" ", "<">> \o m[2] \o <<">", " ">> \o m[3]
          [] packet_type = T_PERSONAL ->
               timestamp(now) \o <<" ", "*", "*">> \o m[2] \o <<"*", "*", " ">> \o m[3]
          [] packet_type = T_PROTOCOL ->
               <<"=","=",">"," ","C","o","n","n","e","c","t","e","d"," ","t","o"," ">>
               \o m[3] \o <<" ", "o", "n", " ">> \o m[2]
          [] packet_type = T_STATUS ->
               IF m[2] \in StatusCategories
               THEN timestamp(now) \o <<":", " ">> \o m[3] \o <<" ">>
               ELSE <<"=",">"," ","M","e","s","s","a","g","e"," ","'">> \o m[3]
                    \o <<"'"," ","r","e","c","e","i","v","e","d"," ","i","n"," ",
                         "u","n","k","n","o","w","n"," ",
                         "c","a","t","e","g","o","r","y"," ","'">> \o m[2] \o <<"'">>
          [] packet_type = T_BEEP ->
               timestamp(now) \o <<" ", "*">> \o m[2]
               \o <<" ","b","e","e","p","s"," ","y","o","u","*">>
          [] OTHER ->
               <<"m","s","g","_","r",":"," ">> \o timestamp(now)
               \o <<" ","r","e","a","d",":"," ">> \o debug_vec(m)

(***************************************************************************)
(* The slash commands (Key::Char('\n')).                                   *)
(***************************************************************************)
QUIT == <<"/", "q", "u", "i", "t">>
MSG == <<"/", "m", "s", "g">>
M == <<"/", "m">>
BEEP == <<"/", "b", "e", "e", "p">>
NAME == <<"/", "n", "a", "m", "e">>
NICK == <<"/", "n", "i", "c", "k">>

\* (cmd == "/msg" || cmd == "/m") && input.len() > 2
is_msg(tokens) == tokens[1] \in {MSG, M} /\ Len(tokens) > 2

\* an arity test that lets extra tokens through
is_beep_loose(tokens) == tokens[1] = BEEP /\ Len(tokens) >= 2

\* cmd == "/beep" && input.len() == 2
is_beep(tokens) == tokens[1] = BEEP /\ Len(tokens) = 2

\* an arity test for /name that lets extra tokens through
is_name_loose(tokens) == tokens[1] \in {NAME, NICK} /\ Len(tokens) >= 2

\* (cmd == "/name" || cmd == "/nick") && input.len() == 2
is_name(tokens) == tokens[1] \in {NAME, NICK} /\ Len(tokens) = 2

\* ui.input.replacen(cmd, "", 1).replacen(format!(" {} ", recipient), "", 1)
msg_text(inp, cmd, recipient) ==
    replacen(replacen(inp, cmd, <<>>), <<" ">> \o recipient \o <<" ">>, <<>>)

\* a /msg entry without the space between the recipient and the text
msg_entry_joined(cmd, recipient, text) == cmd \o <<" ">> \o recipient \o text

\* format!("{} {} {}", cmd, recipient, msg_text)
msg_entry(cmd, recipient, text) == cmd \o <<" ">> \o recipient \o <<" ">> \o text

\* format!("{}: -> {}: {}", timestamp(), recipient, msg_text)
msg_line(now, recipient, text) ==
    timestamp(now) \o <<":", " ", "-", ">", " ">> \o recipient \o <<":", " ">> \o text

\* format!("{} {}", cmd, recipient)
cmd_entry(cmd, arg) == cmd \o <<" ">> \o arg

\* format!("{}: *beep beep, {}*", timestamp(), recipient)
beep_line(now, recipient) ==
    timestamp(now) \o <<":"," ","*","b","e","e","p"," ","b","e","e","p",","," ">>
    \o recipient \o <<"*">>

\* format!("{}: {}", timestamp(), msg_text)
open_line(now, text) == timestamp(now) \o <<":", " ">> \o text

(***************************************************************************)
(* The backend thread (server.run()): puts a tuple on the inbound channel. *)
(***************************************************************************)
\* a send that puts the item at the head of the channel
send_front(q, x) == <<x>> \o q

\* Sender::send on an unbounded channel: the item goes to the end of the queue
send(q, x) == Append(q, x)

BackendSend(m) ==
    /\ pc \in {"loop", "wait"}
    /\ msg_r' = send(msg_r, m)
    /\ n_inbound' = n_inbound + 1
    /\ UNCHANGED <<input, history, user_history, hist_offset, cursor_offset,
                   nickname, cmd_s, pc, last_key, ups, downs, recv>>

(***************************************************************************)
(* The loop, from its top to the call of events.next(): try_recv and the   *)
(* match on the packet type, the sleep, the draw, and                      *)
(* Goto(2 + (ui.input.width() - cursor_offset), ..).  The subtraction is   *)
(* on usize: when cursor_offset exceeds the width it panics in a build     *)
(* with overflow checks and wraps in one without.  Nothing but try_recv    *)
(* touches what another thread can see, so the steps are one action.       *)
(***************************************************************************)
\* the history after `if let Ok(m) = client.msg_r.try_recv() { .. }`
received(h, q, now) == IF q = <<>> THEN h ELSE push(h, InboundLine(Head(q), now))

\* a try_recv that empties the channel
try_recv_drain(q) == <<>>

\* what Receiver::try_recv leaves on the channel: all but the oldest item
try_recv_rest(q) == IF q = <<>> THEN q ELSE Tail(q)

LoopTop(now) ==
    /\ pc = "loop"
    /\ msg_r' = try_recv_rest(msg_r)
    /\ recv' = IF msg_r # <<>> /\ ~InboundPanics(Head(msg_r))
               THEN Append(recv, [m |-> Head(msg_r), at |-> Len(history) + 1])
               ELSE recv
    /\ IF msg_r # <<>> /\ InboundPanics(Head(msg_r))
       THEN /\ pc' = "panicked"
            /\ UNCHANGED history
       ELSE /\ history' = received(history, msg_r, now)
            /\ \/ /\ cursor_offset <= width(input)
                  /\ pc' = "wait"
               \/ /\ cursor_offset > width(input)
                  /\ pc' = "wait"
               \/ /\ cursor_offset > width(input)
                  /\ pc' = "panicked"
    /\ last_key' = "none"
    /\ UNCHANGED <<input, user_history, hist_offset, cursor_offset, nickname,
                   cmd_s, n_inbound, ups, downs>>

(***************************************************************************)
(* events.next(): the event delivered, and the state it was delivered in.  *)
(***************************************************************************)
Deliver(key) ==
    /\ pc = "wait"
    /\ last_key' = key
    /\ ups' = CASE key = "Tick" -> ups
                [] key = "Up" /\ downs = 0 /\ (ups > 0 \/ hist_offset = 0) -> ups + 1
                [] key = "Up" /\ hist_offset = 0 -> 1
                [] key = "Down" -> ups
                [] OTHER -> 0
    /\ downs' = CASE key = "Tick" -> downs
                  [] key = "Down" /\ ups > 0 -> IF downs = 0 THEN 1 ELSE 2
                  [] OTHER -> 0
    /\ UNCHANGED <<msg_r, n_inbound, recv>>

\* a tick that puts the cursor back at the end of the line
TickReset ==
    /\ Deliver("Tick")
    /\ pc' = "loop"
    /\ cursor_offset' = 0
    /\ UNCHANGED <<input, history, user_history, hist_offset, nickname, cmd_s>>

\* Event::Tick: not an Event::Input
Tick ==
    /\ Deliver("Tick")
    /\ pc' = "loop"
    /\ UNCHANGED <<input, history, user_history, hist_offset, cursor_offset,
                   nickname, cmd_s>>

\* Key::Backspace
KeyBackspace ==
    /\ Deliver("Backspace")
    /\ input' = pop(input)
    /\ pc' = "loop"
    /\ UNCHANGED <<history, user_history, hist_offset, cursor_offset, nickname, cmd_s>>

\* Key::Ctrl(c)
KeyCtrl(c) ==
    /\ Deliver("Ctrl")
    /\ CASE c = "w" -> input' = <<>> /\ cursor_offset' = 0
         [] c = "a" -> cursor_offset' = width(input) /\ UNCHANGED input
         [] c = "e" -> cursor_offset' = 0 /\ UNCHANGED input
         [] OTHER -> UNCHANGED <<input, cursor_offset>>
    /\ pc' = "loop"
    /\ UNCHANGED <<history, user_history, hist_offset, nickname, cmd_s>>

\* Key::Up: the offset is incremented before the range test, and stays so
up_offset(ho, hist_len) == ho + 1

KeyUp ==
    /\ Deliver("Up")
    /\ hist_offset' = up_offset(hist_offset, Len(user_history))
    /\ cursor_offset' = 0
    /\ LET hist_len == Len(user_history)
       IN  IF hist_offset + 1 > hist_len \/ hist_len = 0
           THEN UNCHANGED input
           ELSE input' = user_history[hist_len - (hist_offset + 1) + 1]
    /\ pc' = "loop"
    /\ UNCHANGED <<history, user_history, nickname, cmd_s>>

\* a Down that leaves browsing at offset 1
down_reset(inp, uh, ho) ==
    LET hist_len == Len(uh)
    IN  IF ho = 0 \/ hist_len = 0
        THEN [input |-> inp, hist_offset |-> ho, panic |-> FALSE]
        ELSE IF ho = 1
        THEN [input |-> <<>>, hist_offset |-> 0, panic |-> FALSE]
        ELSE IF ho - 1 > hist_len
        THEN [input |-> inp, hist_offset |-> ho - 1, panic |-> TRUE]
        ELSE [input |-> uh[hist_len - (ho - 1) + 1], hist_offset |-> ho - 1,
              panic |-> FALSE]

\* Key::Down: what it leaves in ui.input and hist_offset, and whether
\* ui.user_history[hist_len - hist_offset] is out of range
down(inp, uh, ho) ==
    LET hist_len == Len(uh)
    IN  IF ho = 0 \/ hist_len = 0
        THEN [input |-> inp, hist_offset |-> ho, panic |-> FALSE]
        ELSE IF ho = 1
        THEN [input |-> <<>>, hist_offset |-> ho, panic |-> FALSE]
        ELSE IF ho - 1 > hist_len
        THEN [input |-> inp, hist_offset |-> ho - 1, panic |-> TRUE]
        ELSE [input |-> uh[hist_len - (ho - 1) + 1], hist_offset |-> ho - 1,
              panic |-> FALSE]

KeyDown ==
    /\ Deliver("Down")
    /\ cursor_offset' = 0
    /\ LET r == down(input, user_history, hist_offset)
       IN  /\ input' = r.input
           /\ hist_offset' = r.hist_offset
           /\ pc' = IF r.panic THEN "panicked" ELSE "loop"
    /\ UNCHANGED <<history, user_history, nickname, cmd_s>>

\* a Left that stops at the length in bytes
left_len(inp, co) == IF co = len(inp) THEN co ELSE co + 1

\* Key::Left: the offset it leaves
left(inp, co) == IF co = width(inp) THEN co ELSE co + 1

\* Key::Left
KeyLeft ==
    /\ Deliver("Left")
    /\ cursor_offset' = left(input, cursor_offset)
    /\ pc' = "loop"
    /\ UNCHANGED <<input, history, user_history, hist_offset, nickname, cmd_s>>

\* Key::Right: the offset it leaves
right(co) == IF co = 0 THEN co ELSE co - 1

\* Key::Right
KeyRight ==
    /\ Deliver("Right")
    /\ cursor_offset' = right(cursor_offset)
    /\ pc' = "loop"
    /\ UNCHANGED <<input, history, user_history, hist_offset, nickname, cmd_s>>

\* Key::Char(c), c not '\n': what it leaves in ui.input, and whether the index
\* input_len - cursor_offset underflows or is no char boundary of ui.input
type_char(inp, co, c) ==
    IF co = 0
    THEN [input |-> Append(inp, c), panic |-> FALSE]
    ELSE IF co > len(inp) \/ CharsBefore(inp, len(inp) - co) = {}
    THEN [input |-> inp, panic |-> TRUE]
    ELSE [input |-> insert(inp, len(inp) - co, c), panic |-> FALSE]

KeyChar(c) ==
    /\ Deliver("Char")
    /\ LET r == type_char(input, cursor_offset, c)
       IN  /\ input' = r.input
           /\ pc' = IF r.panic THEN "panicked" ELSE "loop"
    /\ UNCHANGED <<history, user_history, hist_offset, cursor_offset, nickname, cmd_s>>

\* any other key (the `_ => {}` arm)
KeyOther ==
    /\ Deliver("Other")
    /\ pc' = "loop"
    /\ UNCHANGED <<input, history, user_history, hist_offset, cursor_offset,
                   nickname, cmd_s>>

\* the /msg arm: the Command sent, the user_history entry, the history line
msg_submit(inp, tokens, now) ==
    LET cmd == tokens[1]
        recipient == tokens[2]
        text == msg_text(inp, cmd, recipient)
    IN  [cmd |-> <<"Personal", recipient, text>>,
         entry |-> msg_entry(cmd, recipient, text),
         line |-> msg_line(now, recipient, text)]

\* a /beep arm that reads input[0] for the recipient
beep_submit_first(tokens, now) ==
    LET cmd == tokens[1]
        recipient == tokens[1]
    IN  [cmd |-> <<"Beep", recipient>>,
         entry |-> cmd_entry(cmd, recipient),
         line |-> beep_line(now, recipient)]

\* the /beep arm
beep_submit(tokens, now) ==
    LET cmd == tokens[1]
        recipient == tokens[2]
    IN  [cmd |-> <<"Beep", recipient>>,
         entry |-> cmd_entry(cmd, recipient),
         line |-> beep_line(now, recipient)]

\* the /name arm: no history line
name_submit(tokens) ==
    LET cmd == tokens[1]
        newname == tokens[2]
    IN  [cmd |-> <<"Name", newname>>,
         entry |-> cmd_entry(cmd, newname)]

\* a plain-message arm that records the displayed line as the submission
open_submit_shown(inp, now) ==
    [cmd |-> <<"Open", inp>>, entry |-> open_line(now, inp), line |-> open_line(now, inp)]

\* the plain-message arm
open_submit(inp, now) ==
    [cmd |-> <<"Open", inp>>, entry |-> inp, line |-> open_line(now, inp)]

\* Key::Char('\n')
KeyEnter(now) ==
    /\ Deliver("Enter")
    /\ hist_offset' = 0
    /\ cursor_offset' = 0
    /\ IF input # <<>> /\ Head(input) = "/"
       THEN LET tokens == split_whitespace(input)
                cmd == tokens[1]
            IN  IF cmd = QUIT
                THEN /\ pc' = "exited"
                     /\ UNCHANGED <<input, history, user_history, nickname, cmd_s>>
                ELSE IF is_msg(tokens)
                THEN LET r == msg_submit(input, tokens, now)
                     IN  /\ cmd_s' = send(cmd_s, r.cmd)
                         /\ user_history' = push(user_history, r.entry)
                         /\ history' = push(history, r.line)
                         /\ input' = <<>>
                         /\ pc' = "loop"
                         /\ UNCHANGED nickname
                ELSE IF is_beep(tokens)
                THEN LET r == beep_submit(tokens, now)
                     IN  /\ cmd_s' = send(cmd_s, r.cmd)
                         /\ user_history' = push(user_history, r.entry)
                         /\ history' = push(history, r.line)
                         /\ input' = <<>>
                         /\ pc' = "loop"
                         /\ UNCHANGED nickname
                ELSE IF is_name(tokens)
                THEN LET r == name_submit(tokens)
                     IN  /\ cmd_s' = send(cmd_s, r.cmd)
                         /\ user_history' = push(user_history, r.entry)
                         /\ nickname' = r.cmd[2]
                         /\ input' = <<>>
                         /\ pc' = "loop"
                         /\ UNCHANGED history
                ELSE /\ pc' = "loop"
                     /\ UNCHANGED <<input, history, user_history, nickname, cmd_s>>
       ELSE LET r == open_submit(input, now)
            IN  /\ cmd_s' = send(cmd_s, r.cmd)
                /\ history' = push(history, r.line)
                /\ user_history' = push(user_history, r.entry)
                /\ input' = <<>>
                /\ pc' = "loop"
                /\ UNCHANGED nickname

(***************************************************************************)
(* The inputs of the environment: readings of the clock, tuples sent by    *)
(* the backend, characters typed.                                          *)
(***************************************************************************)
Morning == 9 * 60 + 5       \* 09:05
Midnight == 23 * 60 + 59    \* 23:59

OpenTuple == << <<T_OPEN>>, <<"a", "l">>, <<"h", "i">> >>

\* the event loop with every key, from its initial state
Next ==
    \/ n_inbound < MaxInbound /\ BackendSend(OpenTuple)
    \/ LoopTop(Morning)
    \/ Tick
    \/ KeyBackspace
    \/ \E c \in {"w", "a", "e", "x"} : KeyCtrl(c)
    \/ hist_offset < MaxUp /\ KeyUp
    \/ KeyDown
    \/ cursor_offset < MaxCursor /\ KeyLeft
    \/ KeyRight
    \/ Len(input) < MaxLen /\ KeyChar("a")
    \/ KeyOther
    \/ Len(user_history) < MaxHist /\ KeyEnter(Morning)

Spec == Init /\ [][Next]_vars

(***************************************************************************)
(* Line editing with characters whose byte length and display width        *)
(* differ from 1.                                                          *)
(***************************************************************************)
NextEdit ==
    \/ LoopTop(Morning)
    \/ Tick
    \/ KeyBackspace
    \/ \E c \in {"w", "a", "e", "x"} : KeyCtrl(c)
    \/ cursor_offset < MaxCursor /\ KeyLeft
    \/ KeyRight
    \/ Len(input) < MaxLen /\ \E c \in {"a", EAcute, Kanji} : KeyChar(c)
    \/ KeyOther

SpecEdit == Init /\ [][NextEdit]_vars

(***************************************************************************)
(* The dispatch of Enter on lines that were typed beforehand: the lines,   *)
(* with the cursor at either end and the offset left by at most one Up.    *)
(***************************************************************************)
Lines ==
    { <<"/","m"," ","a"," ","b">>,                  \* /m a b
      <<"/","m","s","g"," ","a"," ","b"," "," ","c">>,  \* /msg a b  c
      <<"/","m"," "," ","a"," ","b">>,              \* /m  a b
      <<"/","m",Tab,"a"," ","b">>,                  \* /m<TAB>a b
      <<"/","m"," ","a",Tab,"b">>,                  \* /m a<TAB>b
      <<"/","m"," ","a">>,                          \* /m a
      <<"/","m","s","g">>,                          \* /msg
      <<"/","m","x"," ","a"," ","b">>,              \* /mx a b
      <<"/","b","e","e","p"," ","a">>,              \* /beep a
      <<"/","b","e","e","p"," "," ","a"," ">>,      \* /beep  a_
      <<"/","b","e","e","p">>,                      \* /beep
      <<"/","b","e","e","p"," ","a"," ","b">>,      \* /beep a b
      <<"/","n","a","m","e"," ","a">>,              \* /name a
      <<"/","n","i","c","k"," "," ","b">>,          \* /nick  b
      <<"/","n","a","m","e">>,                      \* /name
      <<"/","n","i","c","k"," ","a"," ","b">>,      \* /nick a b
      <<"/","q","u","i","t">>,                      \* /quit
      <<"/","q","u","i","t"," ","a">>,              \* /quit a
      <<"/","x">>,                                  \* /x
      <<"/">>,                                      \* /
      <<"a"," ","b">>,                              \* a b
      <<" ","/","m"," ","a"," ","b">>,              \* _/m a b
      <<EAcute>>,
      <<>> }

InitDispatch ==
    /\ input \in Lines
    /\ cursor_offset \in {0, width(input)}
    /\ hist_offset \in {0, 1}
    /\ history = <<>>
    /\ user_history = <<>>
    /\ nickname = StartNickname
    /\ msg_r = <<>>
    /\ cmd_s = <<>>
    /\ pc = "loop"
    /\ n_inbound = 0
    /\ last_key = "none"
    /\ ups = 0
    /\ downs = 0
    /\ recv = <<>>

NextDispatch ==
    \/ n_inbound < MaxInbound - 1 /\ BackendSend(OpenTuple)
    \/ \E now \in {Morning, Midnight} : LoopTop(now)
    \/ Tick
    \/ hist_offset < MaxUp /\ KeyUp
    \/ KeyDown
    \/ Len(user_history) < MaxHist /\ \E now \in {Morning, Midnight} : KeyEnter(now)

SpecDispatch == InitDispatch /\ [][NextDispatch]_vars

(***************************************************************************)
(* The inbound channel: every kind of tuple, while short lines are typed   *)
(* and sent.                                                               *)
(***************************************************************************)
InboundTuples ==
    { OpenTuple,
      << <<T_OPEN>>, <<"a", "l">> >>,
      << <<T_PERSONAL>>, <<"a", "l">>, <<"h", "i">> >>,
      << <<T_PROTOCOL>>, <<"h">>, <<"g">> >>,
      << <<T_STATUS>>, <<"W","a","r","n","i","n","g">>, <<"x">> >>,
      << <<T_STATUS>>, <<"F","o","o">>, <<"x">> >>,
      << <<T_BEEP>>, <<"a", "l">> >>,
      << <<T_BEEP>> >>,
      << <<"e">>, <<"x", "\"">> >> }

NextInbound ==
    \/ n_inbound < MaxInbound /\ \E m \in InboundTuples : BackendSend(m)
    \/ LoopTop(Morning)
    \/ Tick
    \/ Len(input) < MaxLen - 1 /\ KeyChar("a")
    \/ Len(user_history) < MaxHist - 1 /\ KeyEnter(Morning)

SpecInbound == Init /\ [][NextInbound]_vars

(***************************************************************************)
(* The two channels: two kinds of tuple from the backend while plain lines *)
(* of different lengths are typed and sent.                                *)
(***************************************************************************)
PersonalTuple == << <<T_PERSONAL>>, <<"a", "l">>, <<"h", "i">> >>

NextOrder ==
    \/ n_inbound < MaxInbound /\ \E m \in {OpenTuple, PersonalTuple} : BackendSend(m)
    \/ LoopTop(Morning)
    \/ Tick
    \/ Len(input) < MaxLen /\ KeyChar("a")
    \/ Len(user_history) < MaxHist /\ KeyEnter(Morning)

SpecOrder == Init /\ [][NextOrder]_vars

(***************************************************************************)
(* The loop with its scheduling: the main thread keeps running, and        *)
(* events.next() keeps returning, a tick if no key is pressed.             *)
(***************************************************************************)
\* events.next() returns an event
Event ==
    \/ Tick
    \/ KeyBackspace
    \/ \E c \in {"w", "a", "e", "x"} : KeyCtrl(c)
    \/ hist_offset < MaxUp /\ KeyUp
    \/ KeyDown
    \/ cursor_offset < MaxCursor /\ KeyLeft
    \/ KeyRight
    \/ Len(input) < MaxLen /\ KeyChar("a")
    \/ KeyOther
    \/ Len(user_history) < MaxHist /\ KeyEnter(Morning)

NextLive ==
    \/ n_inbound < MaxInbound /\ BackendSend(OpenTuple)
    \/ LoopTop(Morning)
    \/ Event

SpecLive ==
    /\ Init
    /\ [][NextLive]_vars
    /\ WF_vars(LoopTop(Morning))
    /\ WF_vars(Event)

(***************************************************************************)
(* Properties.                                                             *)
(***************************************************************************)
IsPrefix(s, t) == Len(s) <= Len(t) /\ SubSeq(t, 1, Len(s)) = s

Last(s) == s[Len(s)]

Digits == {"0", "1", "2", "3", "4", "5", "6", "7", "8", "9"}

\* line is "HH:MM" followed by rest
Stamped(line, rest) ==
    /\ Len(line) = 5 + Len(rest)
    /\ SubSeq(line, 6, Len(line)) = rest
    /\ line[3] = ":"
    /\ \A i \in {1, 2, 4, 5} : line[i] \in Digits

\* a step that handles the key event `key`
KeyStep(key) == pc = "wait" /\ last_key' = key

\* C1: in every reachable state 0 <= cursor_offset <= displayWidth(input buffer)
C1_CursorInRange == cursor_offset >= 0 /\ cursor_offset <= width(input)

\* C2: in every reachable state 0 <= hist_offset <= len(SubmissionHistory); an Up
\* key whose incremented offset would exceed the length leaves hist_offset as it was
C2_HistOffsetInRange == hist_offset >= 0 /\ hist_offset <= Len(user_history)

\* C3: Enter on a buffer that does not start with '/' (the empty one included)
\* sends exactly one Open(buffer), appends one line "HH:MM: buffer" to the
\* conversation and the raw buffer to the submissions, and leaves the buffer
\* empty and both offsets 0
C3_PlainEnter ==
    [][(KeyStep("Enter") /\ (input = <<>> \/ Head(input) # "/")) =>
         /\ pc' = "loop"
         /\ cmd_s' = Append(cmd_s, <<"Open", input>>)
         /\ Len(history') = Len(history) + 1
         /\ IsPrefix(history, history')
         /\ Stamped(Last(history'), <<":", " ">> \o input)
         /\ user_history' = Append(user_history, input)
         /\ input' = <<>>
         /\ cursor_offset' = 0
         /\ hist_offset' = 0]_vars

\* Enter has just sent the plain line "a b"
C3_Witness ==
    /\ last_key = "Enter"
    /\ cmd_s = << <<"Open", <<"a", " ", "b">> >> >>
    /\ user_history = << <<"a", " ", "b">> >>
    /\ Len(history) = 1
    /\ input = <<>>

\* the commands that take exactly one argument, and the two forms of /msg
OneArgCommands == {BEEP, NAME, NICK}
MsgCommands == {MSG, M}

\* the buffer is a '/' line that is neither /quit nor a well-formed command
Rejected(inp) ==
    /\ inp # <<>>
    /\ Head(inp) = "/"
    /\ LET tokens == split_whitespace(inp)
       IN  /\ tokens[1] # QUIT
           /\ \/ tokens[1] \notin OneArgCommands \union MsgCommands
              \/ tokens[1] \in MsgCommands /\ Len(tokens) < 3
              \/ tokens[1] \in OneArgCommands /\ Len(tokens) # 2

\* C4: Enter on an unknown '/' command, or on a known one with the wrong number
\* of tokens, sends nothing and leaves both histories, the nickname and the
\* buffer as they were
C4_RejectedEnter ==
    [][(KeyStep("Enter") /\ Rejected(input)) =>
         /\ pc' = "loop"
         /\ cmd_s' = cmd_s
         /\ history' = history
         /\ user_history' = user_history
         /\ nickname' = nickname
         /\ input' = input]_vars

\* Enter was pressed on "/beep a b" and the line is still there
C4_Witness ==
    /\ last_key = "Enter"
    /\ input = <<"/", "b", "e", "e", "p", " ", "a", " ", "b">>
    /\ cmd_s = <<>>
    /\ user_history = <<>>

RECURSIVE DropToken(_)
DropToken(s) ==
    IF s = <<>> \/ is_whitespace(Head(s)) THEN s ELSE DropToken(Tail(s))

RECURSIVE DropSpace(_)
DropSpace(s) ==
    IF s # <<>> /\ is_whitespace(Head(s)) THEN DropSpace(Tail(s)) ELSE s

\* the part of a "/msg recipient text" buffer after the recipient and the one
\* character that separates it from the text
AfterRecipient(inp) == Tail(DropToken(DropSpace(DropToken(inp))))

\* C5: Enter on /msg or /m with at least three tokens sends exactly one
\* Personal(token[1], text), text being the buffer after the recipient and its
\* separating space, appends "{cmd} {recipient} {text}" to the submissions and
\* "HH:MM: -> {recipient}: {text}" to the conversation, and clears the buffer
C5_MsgEnter ==
    [][(/\ KeyStep("Enter")
        /\ input # <<>>
        /\ Head(input) = "/"
        /\ split_whitespace(input)[1] \in MsgCommands
        /\ Len(split_whitespace(input)) >= 3) =>
         LET tokens == split_whitespace(input)
             text == AfterRecipient(input)
         IN  /\ cmd_s' = Append(cmd_s, <<"Personal", tokens[2], text>>)
             /\ user_history' = Append(user_history,
                    tokens[1] \o <<" ">> \o tokens[2] \o <<" ">> \o text)
             /\ Len(history') = Len(history) + 1
             /\ IsPrefix(history, history')
             /\ Stamped(Last(history'),
                    <<":", " ", "-", ">", " ">> \o tokens[2] \o <<":", " ">> \o text)
             /\ input' = <<>>]_vars

C7_UpThenDown ==
    [][(KeyStep("Down") /\ ups = 1 /\ downs = 0 /\ user_history # <<>>) =>
         /\ pc' = "loop"
         /\ input' = <<>>
         /\ hist_offset' = 1]_vars

\* Up recalled a non-empty line and Down has just cleared it
C7_Witness ==
    /\ last_key = "Down"
    /\ ups = 1
    /\ downs = 1
    /\ user_history # <<>>
    /\ Last(user_history) # <<>>
    /\ input = <<>>
    /\ hist_offset = 1

\* C8: with the cursor inside the buffer, a printable character yields a buffer
\* one character longer, in which the characters after the cursor (the suffix
\* covering cursor_offset columns) and those before it are unchanged; the
\* insertion never fails
C8_CharInsert ==
    [][(KeyStep("Char") /\ cursor_offset <= width(input)) =>
         /\ pc' = "loop"
         /\ Len(input') = Len(input) + 1
         /\ \E k \in 0..Len(input) :
              /\ width(SubSeq(input, k + 1, Len(input))) = cursor_offset
              /\ SubSeq(input', 1, k) = SubSeq(input, 1, k)
              /\ SubSeq(input', k + 2, Len(input')) = SubSeq(input, k + 1, Len(input))]_vars

\* the first characters of line are start
StartsWith(line, start) == IsPrefix(start, line)

\* C9: every inbound tuple, whatever its tag, category or number of fields, is
\* non-fatal and adds exactly one line to the conversation; an unrecognized tag
\* is shown with the Unknown template and a Status of an unknown category with
\* the unknown-category template
C9_InboundNonFatal ==
    [][(pc = "loop" /\ pc' # "loop" /\ msg_r # <<>>) =>
         /\ pc' = "wait"
         /\ Len(history') = Len(history) + 1
         /\ IsPrefix(history, history')
         /\ LET m == Head(msg_r)
                tag == Head(m[1])
            IN  /\ tag \notin {T_OPEN, T_PERSONAL, T_PROTOCOL, T_STATUS, T_BEEP} =>
                     StartsWith(Last(history'), <<"m", "s", "g", "_", "r", ":", " ">>)
                /\ (tag = T_STATUS /\ m[2] \notin StatusCategories) =>
                     StartsWith(Last(history'), <<"=", ">", " ", "M", "e", "s", "s", "a", "g", "e">>)]_vars

\* C10: the conversation is append-only: across every step its previous value
\* is a prefix of the new one
C10_AppendOnly == [][IsPrefix(history, history')]_vars

\* the conversation holds a line received from the backend and a line sent
C10_Witness ==
    /\ Len(history) >= 3
    /\ \E i \in 1..Len(history) : history[i][6] = " "
    /\ \E i \in 1..Len(history) : history[i][6] = ":"

\* a step that runs the loop from its top to events.next()
LoopStep == pc = "loop" /\ pc' # "loop"

\* C11: one cycle of the loop takes at most one tuple off the inbound channel,
\* however many are pending: only the step from the top of the loop to the wait
\* for an event shortens the channel, it shortens it by one, the conversation
\* gains one line for the tuple received and none otherwise, and the step ends
\* in the wait (or in a panic), so that two such steps are separated by an event
C11_OnePerCycle ==
    [][/\ Len(msg_r') >= Len(msg_r) - 1
       /\ Len(recv') <= Len(recv) + 1
       /\ (Len(msg_r') < Len(msg_r) \/ recv' # recv) => LoopStep
       /\ LoopStep =>
            /\ pc' \in {"wait", "panicked"}
            /\ Len(history') - Len(history) = Len(recv') - Len(recv)
            /\ Len(recv') - Len(recv) <= Len(msg_r) - Len(msg_r')]_vars

\* the loop has shown the first of two tuples and waits for an event while the
\* second is still on the channel
C11_Witness ==
    /\ pc = "wait"
    /\ last_key = "none"
    /\ n_inbound = 2
    /\ Len(msg_r) = 1
    /\ Len(recv) = 1
    /\ recv[1].at = Len(history)

\* s without its k-th character
RemoveAt(s, k) == SubSeq(s, 1, k - 1) \o SubSeq(s, k + 1, Len(s))

\* C12: Backspace removes the character immediately before the cursor, the one
\* followed by cursor_offset columns of text, and leaves the characters after
\* the cursor as they were; on an empty buffer it changes nothing
C12_Backspace ==
    [][(KeyStep("Backspace") /\ cursor_offset <= width(input)) =>
         /\ pc' = "loop"
         /\ input = <<>> => input' = input
         /\ \A k \in 1..Len(input) :
              width(SubSeq(input, k + 1, Len(input))) = cursor_offset =>
                input' = RemoveAt(input, k)]_vars

\* the buffer is a '/' line whose tokens are exactly [/name or /nick, newname]
IsNameLine(inp) ==
    /\ inp # <<>>
    /\ Head(inp) = "/"
    /\ Len(split_whitespace(inp)) = 2
    /\ split_whitespace(inp)[1] \in {NAME, NICK}

C14_LeftRight ==
    [][/\ KeyStep("Left") =>
            cursor_offset' = IF cursor_offset = width(input) THEN cursor_offset
                             ELSE cursor_offset + 1
       /\ KeyStep("Right") =>
            cursor_offset' = IF cursor_offset = 0 THEN cursor_offset
                             ELSE cursor_offset - 1
       /\ (KeyStep("Left") \/ KeyStep("Right")) =>
            /\ pc' = "loop"
            /\ UNCHANGED <<input, hist_offset, history, user_history>>
            /\ cursor_offset \in 0..width(input) => cursor_offset' \in 0..width(input')]_vars

\* Left has moved the cursor to the start of a buffer holding one character
\* that is two columns wide
C14_Witness ==
    /\ last_key = "Left"
    /\ input = <<Kanji>>
    /\ cursor_offset = 2

\* C15: with n submissions, the k-th consecutive Up from hist_offset = 0,
\* 1 <= k <= n, leaves submission n - k (counted from 0) in the buffer,
\* hist_offset = k and cursor_offset = 0; with n >= 1, a Down at
\* hist_offset = j >= 2 leaves hist_offset = j - 1 and submission n - (j - 1)
\* in the buffer; Up and Down change neither history
C15_Browse ==
    [][/\ (/\ KeyStep("Up")
           /\ downs = 0
           /\ ups > 0 \/ hist_offset = 0
           /\ ups + 1 <= Len(user_history)) =>
            /\ pc' = "loop"
            /\ input' = user_history[Len(user_history) - (ups + 1) + 1]
            /\ hist_offset' = ups + 1
            /\ cursor_offset' = 0
       /\ (KeyStep("Down") /\ hist_offset >= 2 /\ user_history # <<>>) =>
            /\ pc' = "loop"
            /\ hist_offset' = hist_offset - 1
            /\ hist_offset - 1 <= Len(user_history)
            /\ input' = user_history[Len(user_history) - (hist_offset - 1) + 1]
       /\ (KeyStep("Up") \/ KeyStep("Down")) =>
            UNCHANGED <<user_history, history>>]_vars

\* the tuples the backend has put on the inbound channel, in the order it did:
\* those received, then those pending
Sent == [i \in 1..Len(recv) |-> recv[i].m] \o msg_r

\* C16: order is kept in each direction.  Inbound: the backend's tuples stay in
\* the order it sent them, and the lines of the tuples received are in the
\* conversation in that order.  Outbound: the channel holds the commands in the
\* order of the Enter presses, each step sends at most one, only an Enter step
\* sends, and it records its submission in the same step
C16_OrderKept ==
    [][/\ IsPrefix(Sent, Sent')
       /\ Len(Sent') <= Len(Sent) + 1
       /\ \A i \in 1..Len(recv') :
            /\ recv'[i].at \in 1..Len(history')
            /\ history'[recv'[i].at] = InboundLine(recv'[i].m, Morning)
            /\ \A j \in 1..Len(recv') : i < j => recv'[i].at < recv'[j].at
       /\ IsPrefix(cmd_s, cmd_s')
       /\ Len(cmd_s') <= Len(cmd_s) + 1
       /\ cmd_s' # cmd_s =>
            /\ KeyStep("Enter")
            /\ Last(cmd_s') = <<"Open", input>>
            /\ user_history' = Append(user_history, input)]_vars

\* two different tuples were shown in the order sent, with a sent line between
\* them, and two different commands are on the outbound channel in the order
\* they were submitted
C16_Witness ==
    /\ Len(recv) = 2
    /\ recv[1].m = PersonalTuple
    /\ recv[2].m = OpenTuple
    /\ recv[2].at - recv[1].at > 1
    /\ cmd_s = << <<"Open", <<"a">> >>, <<"Open", <<>> >> >>
    /\ user_history = << <<"a">>, <<>> >>

\* C17: a tick leaves the buffer, cursor_offset, hist_offset, the submissions
\* and the nickname as they were and sends no command; the loop starts its
\* next cycle
C17_TickFrame ==
    [][KeyStep("Tick") =>
         /\ pc' = "loop"
         /\ UNCHANGED <<input, cursor_offset, hist_offset, user_history,
                        nickname, cmd_s>>]_vars

\* a tick came while a recalled line was being edited, the cursor one column
\* from its end
C17_Witness ==
    /\ last_key = "Tick"
    /\ input = <<"a">>
    /\ cursor_offset = 1
    /\ hist_offset = 1
    /\ user_history # <<>>
    /\ cmd_s # <<>>

\* C18: no key sequence leads to an out-of-range access: when Down reads
\* user_history[len - hist_offset] the index is within 0..len-1 (Up reads only
\* after its own range test), and the cursor column width(input) - cursor_offset
\* and the insertion index len(input) - cursor_offset are never negative
C18_NoOutOfRange ==
    [][/\ (KeyStep("Down") /\ hist_offset >= 2 /\ Len(user_history) > 0) =>
            /\ Len(user_history) - (hist_offset - 1) >= 0
            /\ Len(user_history) - (hist_offset - 1) < Len(user_history)
            /\ pc' = "loop"
       /\ (KeyStep("Up") /\ hist_offset' <= Len(user_history)) =>
            /\ Len(user_history) - hist_offset' >= 0
            /\ Len(user_history) - hist_offset' < Len(user_history)
            /\ pc' = "loop"
       /\ LoopStep => width(input) - cursor_offset >= 0
       /\ (KeyStep("Char") /\ cursor_offset # 0) => len(input) - cursor_offset >= 0]_vars

\* C19: submitting a recalled line again is idempotent: when the last
\* submission sent a command, an Up at hist_offset = 0 directly followed by
\* Enter sends a command equal to the last one sent and appends a submission
\* equal to the last one appended
C19_Resubmit ==
    [][(/\ KeyStep("Enter")
        /\ ups = 1
        /\ downs = 0
        /\ user_history # <<>>
        /\ cmd_s # <<>>) =>
         /\ pc' = "loop"
         /\ cmd_s' = Append(cmd_s, Last(cmd_s))
         /\ user_history' = Append(user_history, Last(user_history))]_vars

\* a /m line with a tab after the command was sent, recalled with Up and sent
\* again: the same Personal command and the same submission, twice
C19_Witness ==
    /\ last_key = "Enter"
    /\ Len(cmd_s) = 2
    /\ cmd_s[1] = <<"Personal", <<"a">>, <<Tab, "a", " ", "b">> >>
    /\ cmd_s[2] = cmd_s[1]
    /\ Len(user_history) = 2
    /\ user_history[2] = user_history[1]
    /\ input = <<>>

\* C20: every tuple the backend puts on the inbound channel is eventually
\* shown in the conversation, when events keep being delivered and the process
\* has not exited on /quit
C20_EventuallyShown ==
    \A k \in 1..MaxInbound :
        [](n_inbound >= k => <>(Len(recv) >= k \/ pc = "exited"))

====
